---- MODULE Spec2Model ----
(***************************************************************************)
(* Storage engine (TimescaleHandler) and provider adapter of the trading   *)
(* repository: the ohlc_data table with its upsert, the psycopg2           *)
(* connection pool behind get_connection, and YFinanceProvider's           *)
(* fetch_historical.                                                       *)
(***************************************************************************)
EXTENDS Integers, Sequences, FiniteSets, TLC

\* ------------------------------------------------------------------------
\* Bounds of the model
\* ------------------------------------------------------------------------
\* longest DataFrame handed to insert_ohlc_data
MaxRows == 2
\* timestamps are 1..MaxTime
MaxTime == 2
\* largest max_connections a handler is constructed with
MaxPool == 2
\* days of the daily series gap detection looks at
MaxDay == 10
\* rows the ingestion_logs table grows to
MaxLogs == 2

\* ------------------------------------------------------------------------
\* Program constants
\* ------------------------------------------------------------------------
\* defaults of TimescaleHandler.__init__
min_connections == 1
max_connections == 10
\* page_size of psycopg2.extras.execute_values: rows per INSERT statement
page_size == 100
\* timedelta(days=1), in minutes
Day == 1440

Threads == {"job1", "job2"}
Symbols == {"AAPL"}
Timeframes == {"1d"}
\* data_source argument: None (the default) or a provider name
None == "None"
Sources == {None, "yfinance"}

\* SQL NULL, per column type
NULL == -1
NullText == "NULL"

KeyCols == {"time", "symbol", "timeframe"}
AllCols == {"time", "symbol", "timeframe", "open", "high", "low", "close",
            "volume", "trades", "vwap", "data_source"}
NullOf(c) == IF c = "data_source" THEN NullText ELSE NULL

\* ------------------------------------------------------------------------
\* Input DataFrames
\* ------------------------------------------------------------------------
Times == 1..MaxTime
\* distinct bar contents a provider may deliver for one timestamp
Versions == {1, 2}

\* one DataFrame row: a bar for timestamp ts whose content is version v
Bar(ts, v) ==
    [timestamp |-> ts, open |-> 10 * v, high |-> 10 * v + 2, low |-> 10 * v - 1,
     close |-> 10 * v + 1, volume |-> 100 * v, trades |-> v, vwap |-> 10 * v]

Bars == {Bar(ts, v) : ts \in Times, v \in Versions}

RECURSIVE SeqsUpTo(_, _)
SeqsUpTo(S, n) ==
    IF n = 0 THEN {<< >>}
    ELSE LET shorter == SeqsUpTo(S, n - 1)
         IN  shorter \cup {Append(s, x) : s \in {q \in shorter : Len(q) = n - 1}, x \in S}

BaseColumns == {"timestamp", "open", "high", "low", "close", "volume"}
\* column sets of the frames: canonical, with the optional columns, one short
FrameColumns == {BaseColumns,
                 BaseColumns \cup {"trades", "vwap"},
                 BaseColumns \cup {"trades"},
                 BaseColumns \ {"volume"}}

\* the six-column frames the providers hand over
CanonicalFrames ==
    [columns : {BaseColumns, BaseColumns \ {"volume"}}, rows : SeqsUpTo(Bars, MaxRows)]
\* frames of every column set, all rows for the first timestamp
ColumnFrames ==
    [columns : FrameColumns, rows : SeqsUpTo({Bar(1, v) : v \in Versions}, MaxRows)]
BatchSizes == 1..MaxRows

NoCall == [op |-> "none", data |-> [columns |-> {}, rows |-> << >>],
           symbol |-> "", timeframe |-> "", data_source |-> None, batch_size |-> 1]

\* ------------------------------------------------------------------------
\* insert_ohlc_data: column list, values, and the INSERT ... ON CONFLICT query
\* ------------------------------------------------------------------------
Min(a, b) == IF a < b THEN a ELSE b

RequiredCols == {"time", "open", "high", "low", "close", "volume"}

\* columns of the prepared frame: 'time' is derived from 'timestamp',
\* symbol/timeframe are added, data_source only when the argument is truthy
PreparedColumns(data, data_source) ==
    data.columns \cup {"time", "symbol", "timeframe"}
        \cup (IF data_source # None THEN {"data_source"} ELSE {})

\* cols: the column list of the INSERT
Cols(data, data_source) ==
    {"time", "symbol", "timeframe", "open", "high", "low", "close", "volume"}
        \cup ({"trades", "vwap"} \cap data.columns)
        \cup (IF data_source # None THEN {"data_source"} ELSE {})

\* update_cols: the DO UPDATE SET list
UpdateCols(cols) == cols \ KeyCols

\* one tuple of `values`, by column name
SqlValues(row, symbol, timeframe, data_source) ==
    [time |-> row.timestamp, symbol |-> symbol, timeframe |-> timeframe,
     open |-> row.open, high |-> row.high, low |-> row.low, close |-> row.close,
     volume |-> row.volume, trades |-> row.trades, vwap |-> row.vwap,
     data_source |-> data_source]

Values(data, symbol, timeframe, data_source) ==
    [k \in 1..Len(data.rows) |-> SqlValues(data.rows[k], symbol, timeframe, data_source)]

SameKey(r, v) ==
    r.time = v.time /\ r.symbol = v.symbol /\ r.timeframe = v.timeframe

\* a freshly inserted table row: columns absent from the INSERT are NULL
InsertedRow(v, cols) == [c \in AllCols |-> IF c \in cols THEN v[c] ELSE NullOf(c)]

\* mutant: the update adds the new volume to the stored one
UpdatedRowAccumulating(r, v, cols) ==
    [c \in AllCols |-> IF c = "volume" THEN r[c] + v[c]
                       ELSE IF c \in UpdateCols(cols) THEN v[c] ELSE r[c]]

\* ON CONFLICT (time, symbol, timeframe) DO UPDATE SET col = EXCLUDED.col
UpdatedRow(r, v, cols) ==
    [c \in AllCols |-> IF c \in UpdateCols(cols) THEN v[c] ELSE r[c]]

\* mutant of the conflict clause: DO NOTHING
UpsertDoNothing(tbl, v, cols) ==
    IF \E r \in tbl : SameKey(r, v) THEN tbl ELSE tbl \cup {InsertedRow(v, cols)}

\* INSERT of one tuple under the query of lines 121-126
Upsert(tbl, v, cols) ==
    LET hit == {r \in tbl : SameKey(r, v)}
    IN  IF hit = {} THEN tbl \cup {InsertedRow(v, cols)}
        ELSE (tbl \ hit) \cup {UpdatedRow(r, v, cols) : r \in hit}

RECURSIVE UpsertAll(_, _, _)
UpsertAll(tbl, vals, cols) ==
    IF vals = << >> THEN tbl
    ELSE UpsertAll(Upsert(tbl, Head(vals), cols), Tail(vals), cols)

\* PostgreSQL rejects a statement whose tuples hit one key twice
\* ("ON CONFLICT DO UPDATE command cannot affect row a second time")
HasDuplicateKey(vals) ==
    \E a, b \in 1..Len(vals) : a < b /\ SameKey(vals[a], vals[b])

\* execute_values(cur, query, batch): one INSERT statement per page
RECURSIVE ExecuteValues(_, _, _)
ExecuteValues(tbl, batch, cols) ==
    IF batch = << >> THEN [ok |-> TRUE, table |-> tbl]
    ELSE LET n    == Min(page_size, Len(batch))
             page == SubSeq(batch, 1, n)
             rest == SubSeq(batch, n + 1, Len(batch))
         IN  IF HasDuplicateKey(page) THEN [ok |-> FALSE, table |-> tbl]
             ELSE ExecuteValues(UpsertAll(tbl, page, cols), rest, cols)

KeyOf(r) == <<r.time, r.symbol, r.timeframe>>
Keys(rows) == {KeyOf(r) : r \in rows}

\* ------------------------------------------------------------------------
\* State
\* ------------------------------------------------------------------------
VARIABLES
    store,           \* committed rows of ohlc_data
    txn,             \* per caller: rows written in its connection's open transaction
    maxconn,         \* max_connections the handler was constructed with
    idle,            \* connections waiting in the pool (pool._pool)
    used,            \* per caller: connections it has checked out (pool._used)
    connClosed,      \* per caller: its connection has been lost
    pc,              \* per caller: position inside the running operation
    call,            \* per caller: operation and arguments of the current/last call
    i,               \* per caller: loop variable of the batch loop
    total_inserted,  \* per caller: total_inserted
    exc,             \* per caller: exception in flight ("" when none)
    outcome,         \* per caller: how the last call ended
    result,          \* per caller: what the statement of a read operation fetched
    storeBefore,     \* history: store when the call was made
    failedChunk,     \* history: number of the chunk whose write failed (0: none)
    lastWrite,       \* history: per key, the row the latest applied upsert carried
    first,           \* history: result of the first of two identical calls
    fpc,             \* position inside fetch_historical
    request,         \* arguments of the running fetch_historical call
    df,              \* fetch_historical's local frame
    fetched,         \* how the last fetch_historical call ended
    cause,           \* history: what the remote service did with the request
    ingestion_logs,  \* the rows of the ingestion_logs table, in insertion order
    symbols,         \* the rows of the symbols table
    pool_closed,     \* the pool's closed flag
    handler,         \* the module global _handler (0: None)
    constructed      \* number of TimescaleHandler instances constructed by the factory

storageVars == <<store, txn, maxconn, idle, used, connClosed, pc, call, i, total_inserted,
                 exc, outcome, result, storeBefore, failedChunk, lastWrite, first>>
providerVars == <<fpc, request, df, fetched, cause>>
engineVars == <<ingestion_logs, symbols, pool_closed, handler, constructed>>
vars == <<storageVars, providerVars, engineVars>>

NoOutcome == [kind |-> "none", value |-> 0, exc |-> ""]
Returned(n) == [kind |-> "returned", value |-> n, exc |-> ""]
Raised(e) == [kind |-> "raised", value |-> 0, exc |-> e]
NoFirst == [active |-> FALSE, store |-> {}, outcome |-> NoOutcome]
\* errors of the network or the pool, which a repeated call need not meet again
TransientErrors == {"OperationalError", "InterfaceError", "PoolError"}

\* a Python argument left at None, a function returning None
Omitted == -1
NoResult == << >>

\* TimescaleHandler(max_connections = n) on a database whose ohlc_data holds tbl
ConstructedOn(tbl, n) ==
    /\ store = tbl
    /\ txn = [t \in Threads |-> {}]
    /\ maxconn = n
    /\ idle = min_connections
    /\ used = [t \in Threads |-> 0]
    /\ connClosed = [t \in Threads |-> FALSE]
    /\ pc = [t \in Threads |-> "idle"]
    /\ call = [t \in Threads |-> NoCall]
    /\ i = [t \in Threads |-> 0]
    /\ total_inserted = [t \in Threads |-> 0]
    /\ exc = [t \in Threads |-> ""]
    /\ outcome = [t \in Threads |-> NoOutcome]
    /\ result = [t \in Threads |-> NoResult]
    /\ storeBefore = [t \in Threads |-> {}]
    /\ failedChunk = [t \in Threads |-> 0]
    /\ lastWrite = tbl
    /\ first = [t \in Threads |-> NoFirst]
    /\ ingestion_logs = << >>
    /\ symbols = {}
    /\ pool_closed = FALSE
    /\ handler = 0
    /\ constructed = 0

\* TimescaleHandler(max_connections = n) on an empty table
Constructed(n) == ConstructedOn({}, n)

\* pd.DataFrame()
EmptyFrame == [columns |-> {}, rows |-> << >>]
NoRequest == [symbol |-> "", timeframe |-> "", asset_type |-> ""]
NoFetch == [kind |-> "none", frame |-> EmptyFrame, exc |-> ""]
FetchReturned(frame) == [kind |-> "returned", frame |-> frame, exc |-> ""]

\* a provider on which no call is running
ProviderInit ==
    /\ fpc = "idle"
    /\ request = NoRequest
    /\ df = EmptyFrame
    /\ fetched = NoFetch
    /\ cause = ""

Init == Constructed(max_connections) /\ ProviderInit

RECURSIVE Sum(_, _)
Sum(f, S) ==
    IF S = {} THEN 0
    ELSE LET x == CHOOSE y \in S : TRUE IN f[x] + Sum(f, S \ {x})

\* len(pool._used)
UsedCount == Sum(used, Threads)

\* ------------------------------------------------------------------------
\* psycopg2 ThreadedConnectionPool behind get_connection
\* ------------------------------------------------------------------------
\* getconn raises PoolError("connection pool exhausted")
ExhaustedNever(nIdle, nUsed) == FALSE
Exhausted(nIdle, nUsed) == nIdle = 0 /\ nUsed = maxconn

\* putconn keeps a healthy connection while the pool holds fewer than minconn
IdleAfterPut(nIdle, closed) ==
    IF nIdle < min_connections /\ ~closed THEN nIdle + 1 ELSE nIdle

\* get_connection's finally clause: the connection goes back on every exit
UsedAfterExitLeakOnError(n, e) == IF e = "" THEN n - 1 ELSE n
UsedAfterExit(n, e) == n - 1

\* the rows caller t sees: committed rows overlaid with its own pending writes
View(t) == {r \in store : KeyOf(r) \notin Keys(txn[t])} \cup txn[t]

\* keys locked by the open transactions of the other callers
LockedByOthers(t) == UNION {Keys(txn[u]) : u \in Threads \ {t}}

\* ------------------------------------------------------------------------
\* get_connection: entering and leaving the `with` block
\* ------------------------------------------------------------------------
\* pool.getconn() of caller t; `next` is where the caller continues with the
\* connection. Without one, or on a pool that was closed, it raises and the
\* call is over.
GetConnection(t, next) ==
    IF pool_closed \/ Exhausted(idle, UsedCount)
    THEN /\ outcome' = [outcome EXCEPT ![t] = Raised("PoolError")]
         /\ pc' = [pc EXCEPT ![t] = "return"]
         /\ UNCHANGED <<idle, used, connClosed>>
    ELSE \/ /\ idle' = IF idle > 0 THEN idle - 1 ELSE idle
            /\ used' = [used EXCEPT ![t] = @ + 1]
            /\ connClosed' = [connClosed EXCEPT ![t] = FALSE]
            /\ pc' = [pc EXCEPT ![t] = next]
            /\ outcome' = [outcome EXCEPT ![t] = NoOutcome]
         \/ /\ idle = 0      \* a new connection is opened, and that can fail
            /\ outcome' = [outcome EXCEPT ![t] = Raised("OperationalError")]
            /\ pc' = [pc EXCEPT ![t] = "return"]
            /\ UNCHANGED <<idle, used, connClosed>>

\* pool.putconn(conn) in the finally clause, then the call returns or raises
PutConn(t) ==
    /\ pc[t] = "putconn"
    /\ idle' = IdleAfterPut(idle, connClosed[t])
    /\ used' = [used EXCEPT ![t] = UsedAfterExit(@, exc[t])]
    /\ txn' = [txn EXCEPT ![t] = {}]
    /\ connClosed' = [connClosed EXCEPT ![t] = FALSE]
    /\ pc' = [pc EXCEPT ![t] = "return"]
    /\ outcome' = [outcome EXCEPT ![t] =
                      IF exc[t] # "" THEN Raised(exc[t])
                      ELSE IF call[t].op = "insert_ohlc_data"
                      THEN Returned(total_inserted[t])
                      ELSE Returned(result[t])]
    /\ i' = [i EXCEPT ![t] = 0]
    /\ total_inserted' = [total_inserted EXCEPT ![t] = 0]
    /\ exc' = [exc EXCEPT ![t] = ""]
    /\ UNCHANGED <<providerVars, engineVars>>
    /\ UNCHANGED <<store, maxconn, call, failedChunk, lastWrite, first,
                   storeBefore, result>>

\* ------------------------------------------------------------------------
\* insert_ohlc_data
\* ------------------------------------------------------------------------
InsertCall(data, symbol, timeframe, data_source, batch_size) ==
    [op |-> "insert_ohlc_data", data |-> data, symbol |-> symbol,
     timeframe |-> timeframe, data_source |-> data_source, batch_size |-> batch_size]

CallValues(c) == Values(c.data, c.symbol, c.timeframe, c.data_source)
CallCols(c) == Cols(c.data, c.data_source)

\* range(0, len(values), batch_size): the chunk that starts at offset k
Chunk(vals, k, batch_size) == SubSeq(vals, k + 1, Min(k + batch_size, Len(vals)))
ChunkNumber(k, batch_size) == (k \div batch_size) + 1

\* lines 82-130: early exits, then the connection is taken
BeginInsert(t, c, firstRec) ==
    /\ call' = [call EXCEPT ![t] = c]
    /\ i' = [i EXCEPT ![t] = 0]
    /\ total_inserted' = [total_inserted EXCEPT ![t] = 0]
    /\ exc' = [exc EXCEPT ![t] = ""]
    /\ failedChunk' = [failedChunk EXCEPT ![t] = 0]
    /\ first' = [first EXCEPT ![t] = firstRec]
    /\ storeBefore' = [storeBefore EXCEPT ![t] = store]
    /\ IF c.data.rows = << >>
       THEN /\ outcome' = [outcome EXCEPT ![t] = Returned(0)]
            /\ pc' = [pc EXCEPT ![t] = "return"]
            /\ UNCHANGED <<idle, used, connClosed>>
       ELSE IF ~(RequiredCols \subseteq PreparedColumns(c.data, c.data_source))
       THEN /\ outcome' = [outcome EXCEPT ![t] = Raised("ValueError")]
            /\ pc' = [pc EXCEPT ![t] = "return"]
            /\ UNCHANGED <<idle, used, connClosed>>
       ELSE GetConnection(t, "execute")
    /\ UNCHANGED <<providerVars, engineVars>>
    /\ UNCHANGED <<store, txn, maxconn, lastWrite, result>>

InsertOhlcData(t, data, symbol, timeframe, data_source, batch_size) ==
    /\ pc[t] = "idle"
    /\ BeginInsert(t, InsertCall(data, symbol, timeframe, data_source, batch_size), NoFirst)

\* the caller repeats the call it has just made, with the same arguments
InsertOhlcDataAgain(t) ==
    /\ pc[t] = "return"
    /\ call[t].op = "insert_ohlc_data"
    /\ outcome[t].exc \notin TransientErrors
    /\ BeginInsert(t, call[t], [active |-> TRUE, store |-> store, outcome |-> outcome[t]])

\* the commit sits after the loop: it runs once all chunks are written
CommitPointPerChunk(k, n) == k > 0
CommitPoint(k, n) == k >= n

\* rows of the transaction after the statement: its old writes and the new ones
Pending(t, table, batch) ==
    {r \in table : KeyOf(r) \in Keys(txn[t]) \cup {KeyOf(batch[k]) : k \in 1..Len(batch)}}

\* lines 134-137: one pass of the loop; the statement waits while another open
\* transaction holds one of its keys
ExecuteBatch(t) ==
    /\ pc[t] = "execute"
    /\ LET c     == call[t]
           vals  == CallValues(c)
           batch == Chunk(vals, i[t], c.batch_size)
           res   == ExecuteValues(View(t), batch, CallCols(c))
       IN  /\ {KeyOf(batch[k]) : k \in 1..Len(batch)} \cap LockedByOthers(t) = {}
           /\ IF res.ok
              THEN /\ txn' = [txn EXCEPT ![t] = Pending(t, res.table, batch)]
                   /\ total_inserted' = [total_inserted EXCEPT ![t] = @ + Len(batch)]
                   /\ i' = [i EXCEPT ![t] = @ + c.batch_size]
                   /\ pc' = [pc EXCEPT ![t] =
                                IF CommitPoint(i[t] + c.batch_size, Len(vals))
                                THEN "commit" ELSE "execute"]
                   /\ UNCHANGED <<exc, failedChunk>>
              ELSE /\ exc' = [exc EXCEPT ![t] = "CardinalityViolation"]
                   /\ failedChunk' = [failedChunk EXCEPT ![t] = ChunkNumber(i[t], c.batch_size)]
                   /\ pc' = [pc EXCEPT ![t] = "except"]
                   /\ UNCHANGED <<txn, total_inserted, i>>
    /\ UNCHANGED <<providerVars, engineVars>>
    /\ UNCHANGED <<store, maxconn, idle, used, connClosed, call, outcome, lastWrite,
                   first,
                   storeBefore, result>>

\* execute_values raises for a reason of the database or the network
ExecuteFails(t) ==
    /\ pc[t] = "execute"
    /\ \E lost \in BOOLEAN :
          /\ connClosed' = [connClosed EXCEPT ![t] = lost]
          /\ txn' = [txn EXCEPT ![t] = IF lost THEN {} ELSE @]
    /\ exc' = [exc EXCEPT ![t] = "OperationalError"]
    /\ failedChunk' = [failedChunk EXCEPT ![t] = ChunkNumber(i[t], call[t].batch_size)]
    /\ pc' = [pc EXCEPT ![t] = "except"]
    /\ UNCHANGED <<providerVars, engineVars>>
    /\ UNCHANGED <<store, maxconn, idle, used, call, i, total_inserted, outcome,
                   lastWrite, first,
                   storeBefore, result>>

\* history: the rows a full replacement by the call's tuples leaves, per key
RECURSIVE Replace(_, _, _)
Replace(rows, vals, cols) ==
    IF vals = << >> THEN rows
    ELSE Replace({r \in rows : ~SameKey(r, Head(vals))} \cup {InsertedRow(Head(vals), cols)},
                 Tail(vals), cols)

\* line 139
Commit(t) ==
    /\ pc[t] = "commit"
    /\ store' = View(t)
    /\ txn' = [txn EXCEPT ![t] = {}]
    /\ lastWrite' = Replace(lastWrite, CallValues(call[t]), CallCols(call[t]))
    /\ pc' = [pc EXCEPT ![t] =
                 IF i[t] >= Len(call[t].data.rows) THEN "putconn" ELSE "execute"]
    /\ UNCHANGED <<providerVars, engineVars>>
    /\ UNCHANGED <<maxconn, idle, used, connClosed, call, i, total_inserted, exc,
                   outcome, failedChunk, first,
                   storeBefore, result>>

\* conn.commit() raises: the connection went away, before or after the server
\* made the transaction durable
CommitFails(t) ==
    /\ pc[t] = "commit"
    /\ \E applied \in BOOLEAN :
          /\ store' = IF applied THEN View(t) ELSE store
          /\ lastWrite' = IF applied
                          THEN Replace(lastWrite, CallValues(call[t]), CallCols(call[t]))
                          ELSE lastWrite
    /\ txn' = [txn EXCEPT ![t] = {}]
    /\ connClosed' = [connClosed EXCEPT ![t] = TRUE]
    /\ exc' = [exc EXCEPT ![t] = "OperationalError"]
    /\ pc' = [pc EXCEPT ![t] = "except"]
    /\ UNCHANGED <<providerVars, engineVars>>
    /\ UNCHANGED <<maxconn, idle, used, call, i, total_inserted, outcome, failedChunk,
                   first,
                   storeBefore, result>>

\* conn.rollback(): the pending rows are dropped, the table keeps its rows
AfterRollback(committed, pending) == committed

\* what the except clause lets out: `raise` re-raises, unless rollback()
\* itself raised on a closed connection
PropagatedSwallowed(e, closed) == ""
Propagated(e, closed) == IF closed THEN "InterfaceError" ELSE e

\* lines 142-145
Rollback(t) ==
    /\ pc[t] = "except"
    /\ store' = AfterRollback(store, txn[t])
    /\ txn' = [txn EXCEPT ![t] = {}]
    /\ exc' = [exc EXCEPT ![t] = Propagated(exc[t], connClosed[t])]
    /\ pc' = [pc EXCEPT ![t] = "putconn"]
    /\ UNCHANGED <<providerVars, engineVars>>
    /\ UNCHANGED <<maxconn, idle, used, connClosed, call, i, total_inserted, outcome,
                   failedChunk, lastWrite, first,
                   storeBefore, result>>

\* ------------------------------------------------------------------------
\* The other storage operations: each runs its SQL inside get_connection
\* ------------------------------------------------------------------------
\* a call of a read operation: the arguments the operation does not take stay
\* Omitted
ReadCall(op, symbol, timeframe, start_time, end_time, limit, expected_interval) ==
    [op |-> op, data |-> NoCall.data, symbol |-> symbol, timeframe |-> timeframe,
     data_source |-> None, batch_size |-> 1, start_time |-> start_time,
     end_time |-> end_time, limit |-> limit, expected_interval |-> expected_interval]

StorageCall(op) == ReadCall(op, "", "", Omitted, Omitted, Omitted, Omitted)

Truthy(x) == x # Omitted /\ x # 0

\* SELECT time, open, high, low, close, volume, trades, vwap
QueryColumns == {"time", "open", "high", "low", "close", "volume", "trades", "vwap"}
\* ORDER BY time ASC
RECURSIVE OrderByTime(_)
OrderByTime(rows) ==
    IF rows = {} THEN << >>
    ELSE LET r == CHOOSE x \in rows : \A y \in rows : x.time <= y.time
         IN  <<r>> \o OrderByTime(rows \ {r})

\* lines 170-181: WHERE symbol = %s AND timeframe = %s [AND time >= %s] [AND time <= %s]
Where(tbl, symbol, timeframe, start_time, end_time) ==
    {r \in tbl : /\ r.symbol = symbol
                 /\ r.timeframe = timeframe
                 /\ start_time # Omitted => r.time >= start_time
                 /\ end_time # Omitted => r.time <= end_time}

Limit(rows, limit) ==
    IF Truthy(limit) THEN SubSeq(rows, 1, Min(limit, Len(rows))) ELSE rows

\* lines 184-197: the rows pd.read_sql_query delivers, in the order of the frame
QueryResult(tbl, symbol, timeframe, start_time, end_time, limit) ==
    LET ordered == OrderByTime(Where(tbl, symbol, timeframe, start_time, end_time))
    IN  Limit([k \in 1..Len(ordered) |-> [c \in QueryColumns |-> ordered[k][c]]], limit)

\* SELECT MAX(time): NULL over no rows
MaxTimeOf(rows) ==
    IF rows = {} THEN NULL
    ELSE (CHOOSE x \in rows : \A y \in rows : x.time >= y.time).time

\* lines 256-258: result[0] if result and result[0] else None
LatestResultAny(tbl, symbol, timeframe) ==
    LET latest == MaxTimeOf({r \in tbl : r.timeframe = timeframe})
    IN  IF latest # NULL THEN latest ELSE Omitted
LatestResult(tbl, symbol, timeframe) ==
    LET latest == MaxTimeOf(Where(tbl, symbol, timeframe, Omitted, Omitted))
    IN  IF latest # NULL THEN latest ELSE Omitted

\* lines 275-282, in minutes
interval_map ==
    ("1min" :> 1) @@ ("5min" :> 5) @@ ("15min" :> 15) @@ ("1h" :> 60) @@ ("4h" :> 240) @@
    ("1d" :> Day)

\* interval_map.get(timeframe, timedelta(days=1))
DefaultInterval(timeframe) ==
    IF timeframe \in DOMAIN interval_map THEN interval_map[timeframe] ELSE Day

\* lines 273-283: the local expected_interval
ExpectedInterval(timeframe, expected_interval) ==
    IF ~Truthy(expected_interval) THEN DefaultInterval(timeframe) ELSE expected_interval

\* the bar-free spans of [start_time, end_time], in time order: from the start
\* or a bar to the next bar or the end
RECURSIVE Spans(_, _, _)
Spans(times, from, end_time) ==
    IF times = {} THEN <<[gap_start |-> from, gap_end |-> end_time,
                          gap_duration |-> end_time - from]>>
    ELSE LET next == CHOOSE x \in times : \A y \in times : x <= y
         IN  <<[gap_start |-> from, gap_end |-> next, gap_duration |-> next - from]>>
                 \o Spans(times \ {next}, next, end_time)

\* the database function check_data_gaps(symbol, timeframe, start, end): the
\* spans longer than the interval of the timeframe
CheckDataGaps(tbl, symbol, timeframe, start_time, end_time) ==
    LET times == {r.time : r \in Where(tbl, symbol, timeframe, start_time, end_time)}
    IN  SelectSeq(Spans(times, start_time, end_time),
                  LAMBDA g : g.gap_duration > DefaultInterval(timeframe))

\* line 293: [(row[0], row[1]) for row in cur.fetchall()]
GapTuplesDuration(rows) == [k \in 1..Len(rows) |-> <<rows[k].gap_start, rows[k].gap_duration>>]
GapTuples(rows) == [k \in 1..Len(rows) |-> <<rows[k].gap_start, rows[k].gap_end>>]

\* lines 273-295: expected_interval is worked out, the query takes four arguments
DetectGapsResult(tbl, symbol, timeframe, start_time, end_time, expected_interval) ==
    LET interval == ExpectedInterval(timeframe, expected_interval)
    IN  GapTuples(CheckDataGaps(tbl, symbol, timeframe, start_time, end_time))

\* lines 332-333: rows whose close is more than 50% away from the close of the
\* row before; the first row has no change
OutliersNone(rows) == 0
Outliers(rows) ==
    Cardinality({k \in 2..Len(rows) :
                    /\ rows[k].close # NULL
                    /\ rows[k - 1].close # NULL
                    /\ LET change == rows[k].close - rows[k - 1].close
                       IN  2 * (IF change < 0 THEN -change ELSE change) > rows[k - 1].close})

\* line 341: max(0, min(100, x)) for x = num / den
ClampUpperOnly(num, den) == IF num > 100 * den THEN 100 * den ELSE num
Clamp(num, den) == IF num < 0 THEN 0 ELSE IF num > 100 * den THEN 100 * den ELSE num

\* line 346: round(num / den, 2), in hundredths
Round2(num, den) == (200 * num + den) \div (2 * den)

\* lines 303-352: the report on the rows of the window; df has the seven columns
\* left of the query after set_index('time'); quality_score is in hundredths
QualityResult(tbl, symbol, timeframe, start_date, end_date) ==
    LET rows == QueryResult(tbl, symbol, timeframe, start_date, end_date, Omitted)
        columns == QueryColumns \ {"time"}
        total_records == Len(rows)
        cells == total_records * Cardinality(columns)
        missing == Cardinality({<<k, c>> \in (1..Len(rows)) \X columns : rows[k][c] = NULL})
        zero_volume == Cardinality({k \in 1..Len(rows) : rows[k].volume = 0})
        outliers == Outliers(rows)
        issues == (IF missing > 0 THEN <<"missing values">> ELSE << >>)
                      \o (IF zero_volume > 0 THEN <<"bars with zero volume">> ELSE << >>)
                      \o (IF outliers > 0 THEN <<"potential outliers">> ELSE << >>)
    IN  IF rows = << >>
        THEN [quality_score |-> 0, total_records |-> 0, missing_values |-> 0,
              zero_volume_bars |-> 0, outliers |-> 0, issues |-> <<"No data available">>]
        ELSE [quality_score |->
                  Round2(Clamp(100 * (cells - missing) - 5 * Len(issues) * cells, cells),
                         cells),
              total_records |-> total_records, missing_values |-> missing,
              zero_volume_bars |-> zero_volume, outliers |-> outliers, issues |-> issues]

\* what the statement inside the `with` block hands to the caller
StatementResult(c, tbl) ==
    CASE c.op = "query_ohlc_data" ->
            QueryResult(tbl, c.symbol, c.timeframe, c.start_time, c.end_time, c.limit)
      [] c.op = "get_latest_timestamp" -> LatestResult(tbl, c.symbol, c.timeframe)
      [] c.op = "get_data_quality_score" ->
            QualityResult(tbl, c.symbol, c.timeframe, c.start_time, c.end_time)
      [] c.op = "detect_gaps" ->
            DetectGapsResult(tbl, c.symbol, c.timeframe, c.start_time, c.end_time,
                             c.expected_interval)
      [] OTHER -> NoResult

BeginCall(t, c) ==
    /\ pc[t] = "idle"
    /\ call' = [call EXCEPT ![t] = c]
    /\ i' = [i EXCEPT ![t] = 0]
    /\ total_inserted' = [total_inserted EXCEPT ![t] = 0]
    /\ exc' = [exc EXCEPT ![t] = ""]
    /\ failedChunk' = [failedChunk EXCEPT ![t] = 0]
    /\ first' = [first EXCEPT ![t] = NoFirst]
    /\ storeBefore' = [storeBefore EXCEPT ![t] = store]
    /\ GetConnection(t, "run")
    /\ UNCHANGED <<providerVars, engineVars>>
    /\ UNCHANGED <<store, txn, maxconn, lastWrite, result>>

BeginOperation(t, op) == BeginCall(t, StorageCall(op))

QueryOhlcData(t, symbol, timeframe, start_time, end_time, limit) ==
    BeginCall(t, ReadCall("query_ohlc_data", symbol, timeframe, start_time, end_time,
                          limit, Omitted))
QueryMultiSymbol(t) == BeginOperation(t, "query_multi_symbol")
GetLatestTimestamp(t, symbol, timeframe) ==
    BeginCall(t, ReadCall("get_latest_timestamp", symbol, timeframe, Omitted, Omitted,
                          Omitted, Omitted))
DetectGaps(t, symbol, timeframe, start_time, end_time, expected_interval) ==
    BeginCall(t, ReadCall("detect_gaps", symbol, timeframe, start_time, end_time,
                          Omitted, expected_interval))
\* lines 303-307: the window ends now and reaches back `days` days
GetDataQualityScore(t, symbol, timeframe, now, days) ==
    BeginCall(t, [op |-> "get_data_quality_score", data |-> NoCall.data, symbol |-> symbol,
                  timeframe |-> timeframe, data_source |-> None, batch_size |-> 1,
                  start_time |-> now - days * Day, end_time |-> now, limit |-> Omitted,
                  expected_interval |-> Omitted, now |-> now, days |-> days])

\* lines 354-389: the call and its metadata dict, a function on the keys given
AddSymbolMetadata(t, symbol, metadata) ==
    BeginCall(t, [op |-> "add_symbol_metadata", data |-> NoCall.data, symbol |-> symbol,
                  timeframe |-> "", data_source |-> None, batch_size |-> 1,
                  metadata |-> metadata])

\* lines 391-401: status, error_message and duration_seconds default to
\* 'success', None and None
LogIngestion(t, job_id, symbol, timeframe, provider, records_inserted, status, error_message, duration_seconds) ==
    /\ Len(ingestion_logs) < MaxLogs
    /\ BeginCall(t, [op |-> "log_ingestion", data |-> NoCall.data, symbol |-> symbol,
                     timeframe |-> timeframe, data_source |-> None, batch_size |-> 1,
                     job_id |-> job_id, provider |-> provider,
                     records_inserted |-> records_inserted, status |-> status,
                     error_message |-> error_message,
                     duration_seconds |-> duration_seconds])

GetSymbolsList(t) == BeginOperation(t, "get_symbols_list")

\* lines 375-384: the values bound to the INSERT; metadata.get(key) is None for
\* a key the dict lacks, json.dumps renders the dict under 'extra'. The column
\* updated_at, set to NOW() by every write, is left out.
SymbolRow(symbol, metadata) ==
    LET Get(key, default) == IF key \in DOMAIN metadata THEN metadata[key] ELSE default
        extra == Get("extra", << >>)
    IN  [symbol |-> symbol, name |-> Get("name", None), exchange |-> Get("exchange", None),
         asset_type |-> Get("asset_type", None), sector |-> Get("sector", None),
         industry |-> Get("industry", None), currency |-> Get("currency", "USD"),
         active |-> Get("active", TRUE),
         metadata |-> IF DOMAIN extra = {} THEN "{}"
                      ELSE "{\"lot\": " \o extra.lot \o "}"]

\* lines 356-370: INSERT INTO symbols ... ON CONFLICT (symbol) DO UPDATE SET
\* every column = EXCLUDED's, then commit
SymbolsAfterDoNothing(c, tbl) ==
    IF c.op = "add_symbol_metadata" /\ \A r \in tbl : r.symbol # c.symbol
    THEN tbl \cup {SymbolRow(c.symbol, c.metadata)}
    ELSE tbl
SymbolsAfter(c, tbl) ==
    IF c.op = "add_symbol_metadata"
    THEN {r \in tbl : r.symbol # c.symbol} \cup {SymbolRow(c.symbol, c.metadata)}
    ELSE tbl

\* lines 403-415: INSERT INTO ingestion_logs with no ON CONFLICT clause, then
\* commit: one more row, whatever the table holds
LogRow(c) ==
    [job_id |-> c.job_id, symbol |-> c.symbol, timeframe |-> c.timeframe,
     provider |-> c.provider, records_inserted |-> c.records_inserted,
     status |-> c.status, error_message |-> c.error_message,
     duration_seconds |-> c.duration_seconds]
LogsAfterUpsert(c, logs) ==
    IF c.op # "log_ingestion" THEN logs
    ELSE IF \E k \in 1..Len(logs) : logs[k].job_id = c.job_id
    THEN [k \in 1..Len(logs) |-> IF logs[k].job_id = c.job_id THEN LogRow(c) ELSE logs[k]]
    ELSE Append(logs, LogRow(c))
LogsAfter(c, logs) ==
    IF c.op = "log_ingestion" THEN Append(logs, LogRow(c)) ELSE logs

\* the body of the `with` block completes: the `with` block is left normally
RunStatement(t) ==
    /\ pc[t] = "run"
    /\ result' = [result EXCEPT ![t] = StatementResult(call[t], store)]
    /\ ingestion_logs' = LogsAfter(call[t], ingestion_logs)
    /\ symbols' = SymbolsAfter(call[t], symbols)
    /\ pc' = [pc EXCEPT ![t] = "putconn"]
    /\ UNCHANGED <<providerVars, pool_closed, handler, constructed>>
    /\ UNCHANGED <<store, txn, maxconn, idle, used, connClosed, call, i, total_inserted,
                   exc, outcome, failedChunk, lastWrite, first,
                   storeBefore>>

\* the body raises: no except clause, the exception leaves through finally
RunStatementFails(t) ==
    /\ pc[t] = "run"
    /\ \E lost \in BOOLEAN : connClosed' = [connClosed EXCEPT ![t] = lost]
    /\ exc' = [exc EXCEPT ![t] = "OperationalError"]
    /\ pc' = [pc EXCEPT ![t] = "putconn"]
    /\ UNCHANGED <<providerVars, engineVars>>
    /\ UNCHANGED <<store, txn, maxconn, idle, used, call, i, total_inserted, outcome,
                   failedChunk, lastWrite, first,
                   storeBefore, result>>

\* the call is over: its frame and its result are dropped
Return(t) ==
    /\ pc[t] = "return"
    /\ pc' = [pc EXCEPT ![t] = "idle"]
    /\ call' = [call EXCEPT ![t] = NoCall]
    /\ outcome' = [outcome EXCEPT ![t] = NoOutcome]
    /\ failedChunk' = [failedChunk EXCEPT ![t] = 0]
    /\ first' = [first EXCEPT ![t] = NoFirst]
    /\ storeBefore' = [storeBefore EXCEPT ![t] = {}]
    /\ result' = [result EXCEPT ![t] = NoResult]
    /\ UNCHANGED <<providerVars, engineVars>>
    /\ UNCHANGED <<store, txn, maxconn, idle, used, connClosed, i, total_inserted, exc,
                   lastWrite>>

\* lines 452-456: close(), called while no operation is running. self.pool is
\* the pool object, truthy whether open or closed; closeall() closes every
\* connection and sets the closed flag, and on a pool already closed it raises
\* PoolError.
Close(t) ==
    /\ \A u \in Threads : pc[u] = "idle"
    /\ call' = [call EXCEPT ![t] = StorageCall("close")]
    /\ pool_closed' = TRUE
    /\ idle' = IF pool_closed THEN idle ELSE 0
    /\ outcome' = [outcome EXCEPT ![t] =
                      IF pool_closed THEN Raised("PoolError") ELSE Returned(NoResult)]
    /\ pc' = [pc EXCEPT ![t] = "return"]
    /\ UNCHANGED <<providerVars, ingestion_logs, symbols, handler, constructed>>
    /\ UNCHANGED <<store, txn, maxconn, used, connClosed, i, total_inserted, exc, result,
                   storeBefore, failedChunk, lastWrite, first>>

\* ------------------------------------------------------------------------
\* get_timescale_handler, lines 459-467: no lock is taken, so callers in
\* different threads interleave between the lines. An instance is named by the
\* order of its construction.
\* ------------------------------------------------------------------------
\* line 465: if _handler is None
GetTimescaleHandler(t) ==
    /\ pc[t] = "idle"
    /\ call' = [call EXCEPT ![t] = StorageCall("get_timescale_handler")]
    /\ pc' = [pc EXCEPT ![t] = IF handler = 0 THEN "construct" ELSE "return_handler"]
    /\ UNCHANGED <<providerVars, engineVars>>
    /\ UNCHANGED <<store, txn, maxconn, idle, used, connClosed, i, total_inserted, exc,
                   outcome, result, storeBefore, failedChunk, lastWrite, first>>

\* line 466, right-hand side: TimescaleHandler(**kwargs) opens a pool, or
\* raises when the database cannot be reached
ConstructHandler(t) ==
    /\ pc[t] = "construct"
    /\ \/ /\ constructed' = constructed + 1
          /\ result' = [result EXCEPT ![t] = constructed + 1]
          /\ pc' = [pc EXCEPT ![t] = "assign"]
          /\ UNCHANGED outcome
       \/ /\ outcome' = [outcome EXCEPT ![t] = Raised("OperationalError")]
          /\ pc' = [pc EXCEPT ![t] = "return"]
          /\ UNCHANGED <<constructed, result>>
    /\ UNCHANGED <<providerVars, ingestion_logs, symbols, pool_closed, handler>>
    /\ UNCHANGED <<store, txn, maxconn, idle, used, connClosed, call, i, total_inserted,
                   exc, storeBefore, failedChunk, lastWrite, first>>

\* line 466, assignment to the global
AssignHandler(t) ==
    /\ pc[t] = "assign"
    /\ handler' = result[t]
    /\ pc' = [pc EXCEPT ![t] = "return_handler"]
    /\ UNCHANGED <<providerVars, ingestion_logs, symbols, pool_closed, constructed>>
    /\ UNCHANGED <<store, txn, maxconn, idle, used, connClosed, call, i, total_inserted,
                   exc, outcome, result, storeBefore, failedChunk, lastWrite, first>>

\* line 467: return _handler reads the global again
ReturnHandler(t) ==
    /\ pc[t] = "return_handler"
    /\ outcome' = [outcome EXCEPT ![t] = Returned(handler)]
    /\ pc' = [pc EXCEPT ![t] = "return"]
    /\ UNCHANGED <<providerVars, engineVars>>
    /\ UNCHANGED <<store, txn, maxconn, idle, used, connClosed, call, i, total_inserted,
                   exc, result, storeBefore, failedChunk, lastWrite, first>>

\* ------------------------------------------------------------------------
\* YFinanceProvider.fetch_historical
\* ------------------------------------------------------------------------
\* the values of the TimeFrame enum
TimeFrame == {"tick", "1min", "5min", "15min", "30min", "1h", "4h", "1d", "1w", "1mo"}

TIMEFRAME_MAP ==
    ("1min" :> "1m") @@ ("5min" :> "5m") @@ ("15min" :> "15m") @@ ("30min" :> "30m") @@
    ("1h" :> "1h") @@ ("1d" :> "1d") @@ ("1w" :> "1wk") @@ ("1mo" :> "1mo")

AssetTypes == {"stock", "crypto"}
FetchSymbols == {"AAPL", "BTC", "BTC-USD"}
\* symbols that contain '-USD' or 'USDT'
UsdQuoted == {"BTC-USD"}

\* lines 72-73
TickerSymbol(symbol, asset_type) ==
    IF symbol \notin UsdQuoted /\ asset_type = "crypto" THEN symbol \o "-USD" ELSE symbol

\* what ticker.history can hand back: bars in any order, repeated timestamps
\* included, or a frame that lacks a column
RemoteFrames ==
    [columns : {BaseColumns, BaseColumns \ {"volume"}}, rows : SeqsUpTo(Bars, MaxRows)]
\* ways the request can fail on its way to the service and back
RemoteFailures == {"network", "auth", "rate_limit"}

\* lines 111-113: every exception is logged and an empty frame is returned
Caught(e) == FetchReturned(EmptyFrame)

\* standardize_dataframe, lines 258-263: sort_values orders by timestamp, rows
\* with equal timestamps in an order the sort does not promise; drop_duplicates
\* keeps the last row of each timestamp
Orderings(n) == {f \in [1..n -> 1..n] : \A a, b \in 1..n : a # b => f[a] # f[b]}
SortValues(rows) ==
    {s \in {[k \in 1..Len(rows) |-> rows[f[k]]] : f \in Orderings(Len(rows))} :
        \A k \in 1..(Len(s) - 1) : s[k].timestamp <= s[k + 1].timestamp}

RECURSIVE DropDuplicates(_)
DropDuplicates(rows) ==
    IF rows = << >> THEN << >>
    ELSE LET rest == Tail(rows)
         IN  IF \E k \in 1..Len(rest) : rest[k].timestamp = Head(rows).timestamp
             THEN DropDuplicates(rest)
             ELSE <<Head(rows)>> \o DropDuplicates(rest)

\* lines 65-73: the timeframe is looked up; an unsupported one raises inside try
FetchHistorical(symbol, timeframe, asset_type) ==
    /\ fpc = "idle"
    /\ df' = EmptyFrame
    /\ IF timeframe \notin DOMAIN TIMEFRAME_MAP
       THEN /\ request' = [symbol |-> symbol, timeframe |-> timeframe,
                           asset_type |-> asset_type]
            /\ fetched' = Caught("ValueError")
            /\ cause' = "unsupported_timeframe"
            /\ fpc' = "return"
       ELSE /\ request' = [symbol |-> TickerSymbol(symbol, asset_type),
                           timeframe |-> timeframe, asset_type |-> asset_type]
            /\ fetched' = NoFetch
            /\ cause' = ""
            /\ fpc' = "history"
    /\ UNCHANGED <<storageVars, engineVars>>

\* lines 76-103: the service answers
TickerHistory ==
    /\ fpc = "history"
    /\ \E raw \in RemoteFrames :
          IF raw.rows = << >>
          THEN /\ fetched' = FetchReturned(EmptyFrame)
               /\ cause' = "no_data"
               /\ fpc' = "return"
               /\ df' = EmptyFrame
          ELSE IF ~(BaseColumns \subseteq raw.columns)
          THEN /\ fetched' = Caught("KeyError")
               /\ cause' = "malformed"
               /\ fpc' = "return"
               /\ df' = EmptyFrame
          ELSE /\ df' = [columns |-> BaseColumns, rows |-> raw.rows]
               /\ cause' = "data"
               /\ fpc' = "standardize"
               /\ UNCHANGED fetched
    /\ UNCHANGED <<request, storageVars, engineVars>>

\* lines 76-83: the request raises
TickerHistoryFails ==
    /\ fpc = "history"
    /\ \E e \in RemoteFailures :
          /\ fetched' = Caught(e)
          /\ cause' = e
    /\ fpc' = "return"
    /\ UNCHANGED <<request, df, storageVars, engineVars>>

\* lines 106-109
StandardizeDataframe ==
    /\ fpc = "standardize"
    /\ \E sorted \in SortValues(df.rows) :
          fetched' = FetchReturned([df EXCEPT !.rows = DropDuplicates(sorted)])
    /\ df' = EmptyFrame
    /\ fpc' = "return"
    /\ UNCHANGED <<request, cause, storageVars, engineVars>>

\* the call is over
FetchReturn ==
    /\ fpc = "return"
    /\ fpc' = "idle"
    /\ request' = NoRequest
    /\ fetched' = NoFetch
    /\ cause' = ""
    /\ UNCHANGED <<df, storageVars, engineVars>>

\* ------------------------------------------------------------------------
\* BaseDataProvider.standardize_dataframe called on a frame of the caller
\* ------------------------------------------------------------------------
\* a frame here is [columns: the names in order, rows: one record per row keyed
\* by column name, index: its name, whether it is a DatetimeIndex, its labels]
RangeIndex(n) == [name |-> "", datetime |-> FALSE, labels |-> [k \in 1..n |-> k - 1]]

\* a cell that holds text which is no number
Text == -2

\* str.lower() on the column names that occur
Lower ==
    ("Date" :> "date") @@ ("O" :> "o") @@ ("H" :> "h") @@ ("L" :> "l") @@ ("C" :> "c") @@
    ("Vol" :> "vol")

column_mapping ==
    ("datetime" :> "timestamp") @@ ("date" :> "timestamp") @@ ("time" :> "timestamp") @@
    ("o" :> "open") @@ ("h" :> "high") @@ ("l" :> "low") @@ ("c" :> "close") @@
    ("v" :> "volume") @@ ("vol" :> "volume")

\* lines 220 and 235: the name a column ends with; names outside a mapping stay
RenamedCaseSensitive(c) == IF c \in DOMAIN column_mapping THEN column_mapping[c] ELSE c
Renamed(c) ==
    LET lowered == IF c \in DOMAIN Lower THEN Lower[c] ELSE c
    IN  IF lowered \in DOMAIN column_mapping THEN column_mapping[lowered] ELSE lowered

\* lines 219-235: df.columns lowered, df.rename(columns=column_mapping)
RenameColumns(frame) ==
    [frame EXCEPT
        !.columns = [k \in 1..Len(frame.columns) |-> Renamed(frame.columns[k])],
        !.rows = [k \in 1..Len(frame.rows) |->
                    [c \in {Renamed(x) : x \in DOMAIN frame.rows[k]} |->
                        frame.rows[k][CHOOSE x \in DOMAIN frame.rows[k] : Renamed(x) = c]]]]

ColumnsOf(frame) == {frame.columns[k] : k \in 1..Len(frame.columns)}

\* lines 238-242: timestamp taken from the index when no column carries it;
\* the timestamps are datetime values, which pd.to_datetime hands back as they are
EnsureTimestamp(frame) ==
    IF "timestamp" \in ColumnsOf(frame) THEN frame
    ELSE IF frame.index.name \in {"datetime", "date", "time"} \/ frame.index.datetime
    THEN [columns |-> Append(frame.columns, "timestamp"),
          rows |-> [k \in 1..Len(frame.rows) |->
                      [c \in ColumnsOf(frame) \cup {"timestamp"} |->
                          IF c = "timestamp" THEN frame.index.labels[k]
                          ELSE frame.rows[k][c]]],
          index |-> RangeIndex(Len(frame.rows))]
    ELSE frame

\* lines 245-248: pd.to_numeric(errors='coerce') turns text into NaN
EnsureNumeric(frame) ==
    [frame EXCEPT
        !.rows = [k \in 1..Len(frame.rows) |->
                    [c \in DOMAIN frame.rows[k] |->
                        IF c \in {"open", "high", "low", "close", "volume"}
                              /\ frame.rows[k][c] = Text
                        THEN NULL
                        ELSE frame.rows[k][c]]]]

\* required_cols left at None
NoneCols == {None}

\* lines 251-254
MissingCols(frame, required_cols) ==
    (IF required_cols = NoneCols THEN BaseColumns ELSE required_cols) \ ColumnsOf(frame)

\* lines 259-263: sorted with a fresh index, then the last row of each timestamp
\* kept under the label it has after sorting
SortedDeduplicated(frame) ==
    {[columns |-> frame.columns,
      rows |-> DropDuplicates(sorted),
      index |-> [RangeIndex(0) EXCEPT
                    !.labels = SelectSeq([k \in 1..Len(sorted) |-> k - 1],
                                         LAMBDA l : \A j \in (l + 2)..Len(sorted) :
                                             sorted[j].timestamp # sorted[l + 1].timestamp)]] :
        sorted \in SortValues(frame.rows)}

\* the frame object after the call and what the call hands back: [df, result]
StandardizeOutcomes(frame, required_cols) ==
    LET prepared == EnsureNumeric(EnsureTimestamp(RenameColumns(frame)))
    IN  IF frame.rows = << >> THEN {[df |-> frame, result |-> FetchReturned(frame)]}
        ELSE IF MissingCols(prepared, required_cols) # {}
        THEN {[df |-> prepared,
               result |-> [kind |-> "raised", frame |-> EmptyFrame, exc |-> "ValueError",
                           missing |-> MissingCols(prepared, required_cols)]]}
        ELSE IF "timestamp" \notin ColumnsOf(prepared)
        THEN {[df |-> prepared,
               result |-> [kind |-> "raised", frame |-> EmptyFrame, exc |-> "KeyError",
                           missing |-> {}]]}
        ELSE {[df |-> out, result |-> FetchReturned(out)] : out \in SortedDeduplicated(prepared)}

\* standardize_dataframe(df, required_cols): df is changed in place and returned
StandardizeCall(frame, required_cols) ==
    /\ fpc = "idle"
    /\ request' = [df |-> frame, required_cols |-> required_cols]
    /\ \E o \in StandardizeOutcomes(frame, required_cols) :
          /\ df' = o.df
          /\ fetched' = o.result
    /\ cause' = "standardize_dataframe"
    /\ fpc' = "return"
    /\ UNCHANGED <<storageVars, engineVars>>

\* ------------------------------------------------------------------------
\* BaseDataProvider.fetch_latest and validate_symbol over an abstract
\* fetch_historical
\* ------------------------------------------------------------------------
\* lines 190-200, in seconds
timeframe_deltas ==
    ("1min" :> 60) @@ ("5min" :> 300) @@ ("15min" :> 900) @@ ("30min" :> 1800) @@
    ("1h" :> 3600) @@ ("4h" :> 14400) @@ ("1d" :> 60 * Day) @@ ("1w" :> 7 * 60 * Day) @@
    ("1mo" :> 30 * 60 * Day)

\* lines 202-207: end_date - delta * bars * buffer_multiplier; the buffer is
\* 1.5 or 1.2, written in tenths; every delta is a multiple of ten seconds
CalculateStartDateFlat(end_date, timeframe, bars) ==
    LET delta == IF timeframe \in DOMAIN timeframe_deltas THEN timeframe_deltas[timeframe]
                 ELSE 60 * Day
    IN  end_date - ((delta * bars * 12) \div 10)
CalculateStartDate(end_date, timeframe, bars) ==
    LET delta == IF timeframe \in DOMAIN timeframe_deltas THEN timeframe_deltas[timeframe]
                 ELSE 60 * Day
        buffer_tenths == IF timeframe \in {"1d", "1w"} THEN 15 ELSE 12
    IN  end_date - ((delta * bars * buffer_tenths) \div 10)

\* lines 140-142: fetch_latest hands over to fetch_historical
FetchLatestAs(method, symbol, timeframe, bars, now) ==
    /\ fpc = "idle"
    /\ request' = [method |-> method, symbol |-> symbol, timeframe |-> timeframe,
                   bars |-> bars, end_date |-> now,
                   start_date |-> CalculateStartDate(now, timeframe, bars), calls |-> 1]
    /\ fetched' = NoFetch
    /\ cause' = ""
    /\ fpc' = "fetch_historical"
    /\ UNCHANGED <<df, storageVars, engineVars>>

FetchLatest(symbol, timeframe, bars, now) ==
    FetchLatestAs("fetch_latest", symbol, timeframe, bars, now)

\* lines 154-155: data = self.fetch_latest(symbol, bars=1)
ValidateSymbol(symbol, now) == FetchLatestAs("validate_symbol", symbol, "1d", 1, now)

\* lines 156-158: not data.empty, False for any exception
ValidateResultNoError(frame, e) == e = ""
ValidateResult(frame, e) == e = "" /\ ~(frame.rows = << >> \/ frame.columns = {})

\* the provider's fetch_historical hands back a frame or raises; fetch_latest
\* passes either on, validate_symbol turns it into a truth value
FetchHistoricalAnswers ==
    /\ fpc = "fetch_historical"
    /\ \E answer \in [frame : {[columns |-> BaseColumns, rows |-> rows] :
                                   rows \in SeqsUpTo(Bars, 1)}, exc : {""}]
                      \cup [frame : {EmptyFrame}, exc : {""} \cup RemoteFailures] :
          /\ df' = answer.frame
          /\ cause' = IF answer.exc # "" THEN answer.exc
                      ELSE IF answer.frame.rows = << >> THEN "no_data" ELSE "data"
          /\ fetched' =
                IF request.method = "validate_symbol"
                THEN [kind |-> "returned", frame |-> EmptyFrame, exc |-> "",
                      value |-> ValidateResult(answer.frame, answer.exc)]
                ELSE IF answer.exc # ""
                THEN [kind |-> "raised", frame |-> EmptyFrame, exc |-> answer.exc]
                ELSE FetchReturned(answer.frame)
    /\ fpc' = "return"
    /\ UNCHANGED <<request, storageVars, engineVars>>

\* ------------------------------------------------------------------------
\* Specifications
\* ------------------------------------------------------------------------
Continue(t) ==
    \/ ExecuteBatch(t)
    \/ ExecuteFails(t)
    \/ Commit(t)
    \/ CommitFails(t)
    \/ Rollback(t)
    \/ RunStatement(t)
    \/ RunStatementFails(t)
    \/ PutConn(t)
    \/ Return(t)

OtherOperation(t) ==
    \/ \E symbol \in Symbols, timeframe \in Timeframes :
          \/ QueryOhlcData(t, symbol, timeframe, Omitted, Omitted, Omitted)
          \/ GetLatestTimestamp(t, symbol, timeframe)
          \/ DetectGaps(t, symbol, timeframe, 1, MaxTime, Omitted)
    \/ QueryMultiSymbol(t)
    \/ GetSymbolsList(t)

\* one caller, canonical frames with every batch structure of the bounds
Next ==
    \E t \in {"job1"} :
        \/ \E data \in CanonicalFrames, symbol \in Symbols, timeframe \in Timeframes,
              batch_size \in BatchSizes :
                 InsertOhlcData(t, data, symbol, timeframe, None, batch_size)
        \/ OtherOperation(t)
        \/ Continue(t)

Spec == Init /\ [][Next]_vars

\* one caller, frames with and without the optional columns and the source
NextColumns ==
    \E t \in {"job1"} :
        \/ \E data \in ColumnFrames, symbol \in Symbols, timeframe \in Timeframes,
              data_source \in Sources, batch_size \in BatchSizes :
                 InsertOhlcData(t, data, symbol, timeframe, data_source, batch_size)
        \/ InsertOhlcDataAgain(t)
        \/ OtherOperation(t)
        \/ Continue(t)

SpecColumns == Init /\ [][NextColumns]_vars

\* two callers share a pool of 1..MaxPool connections and run every storage
\* operation, the early exits of insert_ohlc_data included
VersionOf(t) == IF t = "job1" THEN 1 ELSE 2
PoolFrames(t) ==
    [columns : {BaseColumns, BaseColumns \ {"volume"}},
     rows : {<< >>, <<Bar(1, VersionOf(t))>>}]

InitPool == (\E n \in 1..MaxPool : Constructed(n)) /\ ProviderInit

NextPool ==
    \E t \in Threads :
        \/ \E data \in PoolFrames(t), symbol \in Symbols, timeframe \in Timeframes :
                 InsertOhlcData(t, data, symbol, timeframe, None, 1)
        \/ OtherOperation(t)
        \/ Continue(t)

SpecPool == InitPool /\ [][NextPool]_vars

\* two ingestion jobs, one insert_ohlc_data call each, at the same time on the
\* same symbol and timeframe: each job delivers its own content for the same
\* timestamps, with or without the optional columns
ConcRows(v) == {<<Bar(1, v)>>, <<Bar(1, v), Bar(2, v)>>}
ConcFrames(t) ==
    [columns : {BaseColumns, BaseColumns \cup {"trades", "vwap"}},
     rows : ConcRows(VersionOf(t))]

NextConc ==
    \E t \in Threads :
        \/ \E data \in ConcFrames(t), symbol \in Symbols, timeframe \in Timeframes,
              batch_size \in BatchSizes :
                 InsertOhlcData(t, data, symbol, timeframe, None, batch_size)
        \/ ExecuteBatch(t)
        \/ ExecuteFails(t)
        \/ Commit(t)
        \/ CommitFails(t)
        \/ Rollback(t)
        \/ PutConn(t)

SpecConc == Init /\ [][NextConc]_vars

\* the provider alone: every timeframe, every answer of the service
NextFetch ==
    \/ \E symbol \in FetchSymbols, timeframe \in TimeFrame, asset_type \in AssetTypes :
          FetchHistorical(symbol, timeframe, asset_type)
    \/ TickerHistory
    \/ TickerHistoryFails
    \/ StandardizeDataframe
    \/ FetchReturn

SpecFetch == Init /\ [][NextFetch]_vars

\* row k of a frame: the timestamp in the time column, elsewhere a number that
\* tells the column and the version of the bar, or text for version 0
FrameRow(columns, ts, v) ==
    [c \in {columns[k] : k \in 1..Len(columns)} |->
        IF c \in {"Date", "timestamp"} THEN ts
        ELSE IF v = 0 THEN Text
        ELSE 10 * v + (CHOOSE k \in 1..Len(columns) : columns[k] = c)]

\* frames with a RangeIndex or a DatetimeIndex, rows in any order
StandardFrames ==
    {[columns |-> columns,
      rows |-> [k \in 1..Len(bars) |-> FrameRow(columns, bars[k][1], bars[k][2])],
      index |-> IF dated
                THEN [name |-> "Date", datetime |-> TRUE,
                      labels |-> [k \in 1..Len(bars) |-> bars[k][1]]]
                ELSE RangeIndex(Len(bars))] :
        columns \in {<<"Date", "O", "H", "L", "C", "Vol">>,
                     <<"timestamp", "open", "high", "low", "close", "volume">>,
                     <<"Date", "O", "H", "L", "C">>,
                     <<"O", "H", "L", "C", "Vol">>,
                     <<"foo">>},
        dated \in BOOLEAN,
        bars \in SeqsUpTo(Times \X (Versions \cup {0}), MaxRows)}

\* one call on any of the frames
NextStandardize ==
    \E frame \in StandardFrames,
       required_cols \in {NoneCols, {"timestamp", "close"}, {"close"}} :
          StandardizeCall(frame, required_cols)

SpecStandardize == Init /\ [][NextStandardize]_vars

\* the row that inserting one bar without optional columns leaves in the table
StoredRow(bar, symbol, timeframe) ==
    InsertedRow(SqlValues(bar, symbol, timeframe, None),
                Cols([columns |-> BaseColumns, rows |-> <<bar>>], None))

\* steps of a running read operation
ContinueRead(t) ==
    \/ RunStatement(t)
    \/ RunStatementFails(t)
    \/ PutConn(t)
    \/ Return(t)

\* gap detection on a daily series: any of the days 1..MaxDay may be stored
InitGaps ==
    (\E days \in SUBSET (1..MaxDay) :
        ConstructedOn({StoredRow(Bar(d * Day, 1), "AAPL", "1d") : d \in days},
                      max_connections))
        /\ ProviderInit

NextGaps ==
    \E t \in {"job1"} :
        \/ \E start_time \in {Day, 2 * Day}, end_time \in {(MaxDay - 1) * Day, MaxDay * Day},
              expected_interval \in {Omitted, 2 * Day, 3 * Day} :
                 DetectGaps(t, "AAPL", "1d", start_time, end_time, expected_interval)
        \/ ContinueRead(t)

SpecGaps == InitGaps /\ [][NextGaps]_vars

\* quality scoring: each day holds no bar, a bar with or without trades and
\* vwap, or a bar with zero volume; or every stored row has all cells missing.
\* The closes are present in every row or in none.
InitQuality ==
    /\ \E kind \in [Times -> {<<"absent", 1>>} \cup
                               ({"base", "full", "zero", "missing"} \X Versions)] :
          /\ (\E d \in Times : kind[d][1] = "missing") =>
                 (\A d \in Times : kind[d] \in {<<"absent", 1>>, <<"missing", 1>>})
          /\ ConstructedOn(
                 {LET base == StoredRow(Bar(d * Day, kind[d][2]), "AAPL", "1d")
                  IN  CASE kind[d][1] = "base" -> base
                        [] kind[d][1] = "full" ->
                              [base EXCEPT !.trades = kind[d][2], !.vwap = 10 * kind[d][2]]
                        [] kind[d][1] = "zero" -> [base EXCEPT !.volume = 0]
                        [] OTHER -> [c \in AllCols |->
                                        IF c \in KeyCols THEN base[c] ELSE NullOf(c)] :
                     d \in {x \in Times : kind[x][1] # "absent"}},
                 max_connections)
    /\ ProviderInit

NextQuality ==
    \E t \in {"job1"} :
        \/ \E now \in {MaxTime * Day, (MaxTime + 1) * Day}, days \in {1, 30} :
              GetDataQualityScore(t, "AAPL", "1d", now, days)
        \/ ContinueRead(t)

SpecQuality == InitQuality /\ [][NextQuality]_vars

\* reads among upserts: bars of the series asked for, of another symbol and of
\* another timeframe are written one at a time and read back
NextRead ==
    \E t \in {"job1"} :
        \/ \E ts \in Times, series \in {<<"AAPL", "1d">>, <<"MSFT", "1d">>, <<"AAPL", "1h">>} :
              InsertOhlcData(t, [columns |-> BaseColumns, rows |-> <<Bar(ts, 1)>>],
                             series[1], series[2], None, 1)
        \/ \E symbol \in {"AAPL", "MSFT"} :
              \/ \E start_time \in {Omitted, 2}, end_time \in {Omitted, 2},
                    limit \in {Omitted} \cup (0..MaxRows) :
                       QueryOhlcData(t, symbol, "1d", start_time, end_time, limit)
              \/ GetLatestTimestamp(t, symbol, "1d")
        \/ Continue(t)

SpecRead == Init /\ [][NextRead]_vars

\* callers of fetch_latest and validate_symbol at two instants, in seconds
NextLatest ==
    \/ \E symbol \in FetchSymbols, now \in {60000 * Day, 60000 * Day + 1} :
          \/ \E timeframe \in TimeFrame, bars \in 1..MaxRows :
                FetchLatest(symbol, timeframe, bars, now)
          \/ ValidateSymbol(symbol, now)
    \/ FetchHistoricalAnswers
    \/ FetchReturn

SpecLatest == Init /\ [][NextLatest]_vars

\* the metadata dicts a caller passes: empty, partial, and with every key
MetadataDicts ==
    {<< >>,
     [name |-> "Apple Inc.", active |-> FALSE],
     [name |-> "Apple", exchange |-> "NASDAQ", asset_type |-> "stock",
      sector |-> "Technology", industry |-> "Hardware", currency |-> "EUR",
      active |-> TRUE, extra |-> [lot |-> "100"]]}

\* one caller writes symbol metadata and audit rows, and closes the handler
NextEngine ==
    \E t \in {"job1"} :
        \/ \E symbol \in {"AAPL", "MSFT"}, metadata \in MetadataDicts :
              AddSymbolMetadata(t, symbol, metadata)
        \/ \E job_id \in {"j1", "j2"},
              ending \in {<<1, "success", None, 3>>, <<0, "failed", "timeout", Omitted>>} :
              LogIngestion(t, job_id, "AAPL", "1d", "yfinance", ending[1], ending[2],
                           ending[3], ending[4])
        \/ Close(t)
        \/ ContinueRead(t)

SpecEngine == Init /\ [][NextEngine]_vars

\* the threads of one process ask for the shared handler
NextSingleton ==
    \E t \in Threads :
        \/ GetTimescaleHandler(t)
        \/ ConstructHandler(t)
        \/ AssignHandler(t)
        \/ ReturnHandler(t)
        \/ Return(t)

SpecSingleton == Init /\ [][NextSingleton]_vars

\* ------------------------------------------------------------------------
\* Properties of the upsert
\* ------------------------------------------------------------------------
OhlcvCols == {"open", "high", "low", "close", "volume"}

\* the table after the first j chunks of call c were written to tbl
RECURSIVE ApplyChunks(_, _, _)
ApplyChunks(tbl, c, j) ==
    IF j = 0 THEN tbl
    ELSE UpsertAll(ApplyChunks(tbl, c, j - 1),
                   Chunk(CallValues(c), (j - 1) * c.batch_size, c.batch_size),
                   CallCols(c))

\* C1: a call repeated with the same frame and arguments leaves the table as the
\* first call left it, and ends as the first call ended (same count returned)
C1IdempotentUpsert ==
    \A t \in Threads :
        first[t].active =>
            /\ store = first[t].store
            /\ (pc[t] = "return" /\ outcome[t].exc \notin TransientErrors)
                   => outcome[t] = first[t].outcome

\* a repeated call of a frame with rows has returned its count
C1Witness ==
    \E t \in Threads :
        /\ first[t].active /\ pc[t] = "return"
        /\ outcome[t].kind = "returned" /\ outcome[t].value > 1
        /\ \E r \in store : r.trades # NULL /\ r.data_source # NullText

\* C2: the table holds exactly one row for every key an applied upsert wrote and
\* no other row, and the row's open/high/low/close/volume are those of the latest
\* applied upsert of the key
C2KeyUniqueLastWriteWins ==
    /\ \A w \in lastWrite :
          /\ Cardinality({r \in store : SameKey(r, w)}) = 1
          /\ \A r \in store : SameKey(r, w) => \A c \in OhlcvCols : r[c] = w[c]
    /\ \A r \in store : \E w \in lastWrite : SameKey(r, w)

\* a returned call has replaced the values of a key that was stored before
C2Witness ==
    \E t \in Threads :
        /\ pc[t] = "return" /\ outcome[t].kind = "returned"
        /\ \E old \in storeBefore[t], new \in store :
              SameKey(old, new) /\ old.close # new.close
        /\ Cardinality(store) = MaxTime

\* C3 (as claimed): every stored row is the complete row of the latest applied
\* upsert of its key, columns the upsert did not carry being NULL
C3FullRowReplacement == store = lastWrite

StorageErrors == {"OperationalError", "InterfaceError", "CardinalityViolation"}

\* C4: once the write of chunk k has failed, the table holds nothing of chunk k
\* (it is the table of the call's start with at most the chunks before k), and
\* the call ends by raising the storage error, not by returning a count
C4ChunkAtomicOnFailure ==
    \A t \in Threads :
        failedChunk[t] > 0 =>
            /\ \E j \in 0..(failedChunk[t] - 1) :
                  store = ApplyChunks(storeBefore[t], call[t], j)
            /\ pc[t] = "return" =>
                  outcome[t].kind = "raised" /\ outcome[t].exc \in StorageErrors

\* a call whose chunk write failed has raised, and the chunk would have changed
\* the table
C4Witness ==
    \E t \in Threads :
        /\ failedChunk[t] > 0 /\ pc[t] = "return" /\ outcome[t].kind = "raised"
        /\ ApplyChunks(storeBefore[t], call[t], failedChunk[t]) # store

\* C5 (as claimed): after chunk k failed, the chunks 1..k-1 of the call are
\* committed and visible
C5EarlierChunksStayCommitted ==
    \A t \in Threads :
        (failedChunk[t] > 1 /\ pc[t] = "return") =>
            store = ApplyChunks(storeBefore[t], call[t], failedChunk[t] - 1)

\* C5 (amended): all chunks are written in one transaction, so after chunk k
\* failed the chunks 1..k-1 are rolled back with it: the table is that of the
\* call's start
C5AllChunksRolledBack ==
    \A t \in Threads :
        failedChunk[t] > 1 => store = storeBefore[t]

\* chunk 2 failed after chunk 1 had written a row the table did not hold
C5Witness ==
    \E t \in Threads :
        /\ failedChunk[t] > 1 /\ pc[t] = "return"
        /\ ApplyChunks(storeBefore[t], call[t], failedChunk[t] - 1) # storeBefore[t]

\* ------------------------------------------------------------------------
\* Properties of the connection pool
\* ------------------------------------------------------------------------
\* C6: however the callers interleave, the connections checked out of the pool
\* never number more than max_connections
C6PoolCeiling == UsedCount <= maxconn

\* the ceiling is met: every connection is out and a further request was refused
C6Witness ==
    /\ UsedCount = maxconn
    /\ \E t \in Threads : pc[t] = "return" /\ outcome[t] = Raised("PoolError")
    /\ \E u \in Threads : used[u] = 1 /\ call[u].op = "insert_ohlc_data"

\* C7: a caller that asks for a connection while max_connections are checked
\* out waits for one; its call never ends with an error of the pool
C7BlockingAcquisition ==
    \A t \in Threads : ~(pc[t] = "return" /\ outcome[t] = Raised("PoolError"))

CompleteRows ==
    UNION {{InsertedRow(CallValues(call[t])[k], CallCols(call[t])) :
                k \in 1..Len(CallValues(call[t]))} : t \in Threads}

\* C9: once both concurrent calls have returned, no key has two rows and every
\* stored row is the complete row one of the two jobs wrote
C9ConcurrentSameKeyWriters ==
    (\A t \in Threads : pc[t] = "return" /\ outcome[t].kind = "returned") =>
        /\ \A r1, r2 \in store : KeyOf(r1) = KeyOf(r2) => r1 = r2
        /\ store \subseteq CompleteRows

\* ------------------------------------------------------------------------
\* Properties of the provider
\* ------------------------------------------------------------------------
FetchFailures == RemoteFailures \cup {"unsupported_timeframe"}

\* C10: a network, auth or rate-limit failure and an unsupported timeframe end
\* fetch_historical with ProviderError, and an empty result is returned only
\* when the request succeeded and the range holds no data
C10FailureApartFromNoData ==
    fpc = "return" =>
        /\ cause \in FetchFailures =>
               fetched.kind = "raised" /\ fetched.exc = "ProviderError"
        /\ (fetched.kind = "returned" /\ fetched.frame.rows = << >>) => cause = "no_data"

\* ------------------------------------------------------------------------
\* Properties of gap detection
\* ------------------------------------------------------------------------
\* a detect_gaps call of caller t has returned its list
GapsReturned(t) ==
    pc[t] = "return" /\ call[t].op = "detect_gaps" /\ outcome[t].kind = "returned"

\* stored bar times of the call's series inside [start_time, end_time]
BarsInRange(t) ==
    {r.time : r \in {x \in store : /\ x.symbol = call[t].symbol
                                     /\ x.timeframe = call[t].timeframe
                                     /\ x.time >= call[t].start_time
                                     /\ x.time <= call[t].end_time}}

\* (a, b) is a maximal bar-free span of the range: it starts at the range start
\* or a bar, ends at the next bar or the range end
BarFreeSpan(t, a, b) ==
    /\ a < b
    /\ a \in BarsInRange(t) \cup {call[t].start_time}
    /\ b \in BarsInRange(t) \cup {call[t].end_time}
    /\ \A x \in BarsInRange(t) : ~(a < x /\ x < b)
    /\ a = call[t].start_time \/ a \in BarsInRange(t)

RangePoints(t) == BarsInRange(t) \cup {call[t].start_time, call[t].end_time}
TenDaySeries == {d * Day : d \in 1..10}

C12ExpectedIntervalHonoured ==
    \A t \in Threads :
        GapsReturned(t) =>
            \A k \in 1..Len(outcome[t].value) :
                outcome[t].value[k][2] - outcome[t].value[k][1] >
                    ExpectedInterval(call[t].timeframe, call[t].expected_interval)

\* ------------------------------------------------------------------------
\* Properties of standardize_dataframe
\* ------------------------------------------------------------------------
\* a standardize_dataframe call on a frame with rows is over
StandardizeDone == fpc = "return" /\ cause = "standardize_dataframe"

\* the rows of the frame passed in, under their final column names
RowsPassedIn == EnsureNumeric(EnsureTimestamp(RenameColumns(request.df))).rows

\* C13: the returned rows are in strictly ascending timestamp order, and the row
\* of each timestamp is the last row of the input with that timestamp
C13DeduplicationKeepsLastInput ==
    (StandardizeDone /\ fetched.kind = "returned" /\ request.df.rows # << >>) =>
        LET out == fetched.frame.rows
        IN  /\ \A k \in 1..(Len(out) - 1) : out[k].timestamp < out[k + 1].timestamp
            /\ {out[k].timestamp : k \in 1..Len(out)} =
                   {RowsPassedIn[j].timestamp : j \in 1..Len(RowsPassedIn)}
            /\ \A k \in 1..Len(out) :
                   \E j \in 1..Len(RowsPassedIn) :
                       /\ out[k] = RowsPassedIn[j]
                       /\ \A later \in (j + 1)..Len(RowsPassedIn) :
                              RowsPassedIn[later].timestamp # out[k].timestamp

AliasColumns == <<"Date", "O", "H", "L", "C", "Vol">>
CanonicalColumns == <<"timestamp", "open", "high", "low", "close", "volume">>

C15SchemaCheck ==
    StandardizeDone =>
        LET missing == MissingCols(EnsureTimestamp(RenameColumns(request.df)),
                                   request.required_cols)
        IN  missing # {} => fetched.kind = "raised" /\ fetched.missing = missing

\* C16: after the call the frame passed in is as it was before the call
C16Purity == StandardizeDone => df = request.df

\* ------------------------------------------------------------------------
\* Properties of get_data_quality_score
\* ------------------------------------------------------------------------
\* a get_data_quality_score call of caller t has returned its report
QualityReturned(t) ==
    pc[t] = "return" /\ call[t].op = "get_data_quality_score" /\ outcome[t].kind = "returned"

\* the stored rows of the call's series inside its window
Window(t) ==
    {r \in store : /\ r.symbol = call[t].symbol
                    /\ r.timeframe = call[t].timeframe
                    /\ r.time >= call[t].now - call[t].days * Day
                    /\ r.time <= call[t].now}

ScoredCols == {"open", "high", "low", "close", "volume", "trades", "vwap"}

\* C17: the score lies within [0, 100] (0 to 10000 hundredths); an empty window
\* scores 0 with the issue 'No data available'; a window whose cells are all
\* missing scores 0
C17QualityBounds ==
    \A t \in Threads :
        QualityReturned(t) =>
            /\ outcome[t].value.quality_score >= 0
            /\ outcome[t].value.quality_score <= 100 * 100
            /\ Window(t) = {} =>
                   /\ outcome[t].value.quality_score = 0
                   /\ outcome[t].value.issues = <<"No data available">>
            /\ (\A r \in Window(t) : \A c \in ScoredCols : r[c] = NULL) =>
                   outcome[t].value.quality_score = 0

\* a window of rows without any value was scored
C17Witness ==
    \E t \in Threads :
        /\ QualityReturned(t)
        /\ Cardinality(Window(t)) = 2
        /\ \A r \in Window(t) : \A c \in ScoredCols : r[c] = NULL
        /\ outcome[t].value.quality_score = 0
        /\ outcome[t].value.issues = <<"missing values">>

\* missing cells of the window
MissingCells(t) == Cardinality({<<r, c>> \in Window(t) \X ScoredCols : r[c] = NULL})

\* the issues present in the window: a missing value, a zero-volume bar, a bar
\* whose close is more than 50% away from the close of the bar before it
IssueCount(t) ==
    (IF MissingCells(t) > 0 THEN 1 ELSE 0)
        + (IF \E r \in Window(t) : r.volume = 0 THEN 1 ELSE 0)
        + (IF \E r, q \in Window(t) :
                 /\ q.time < r.time
                 /\ \A x \in Window(t) : ~(q.time < x.time /\ x.time < r.time)
                 /\ r.close # NULL /\ q.close # NULL
                 /\ (2 * (r.close - q.close) > q.close \/ 2 * (q.close - r.close) > q.close)
           THEN 1 ELSE 0)

\* 100 * completeness - 5 * issueCount as a fraction over the number of cells,
\* clamped to [0, 100]
ClampedNumerator(t) ==
    LET cells == Cardinality(Window(t)) * Cardinality(ScoredCols)
        num == 100 * (cells - MissingCells(t)) - 5 * IssueCount(t) * cells
    IN  IF num < 0 THEN 0 ELSE IF num > 100 * cells THEN 100 * cells ELSE num

\* C18 as stated: for a non-empty window the score equals
\* clamp(0, 100, completeness * 100 - 5 * issueCount)
C18QualityFormulaExact ==
    \A t \in Threads :
        (QualityReturned(t) /\ Window(t) # {}) =>
            outcome[t].value.quality_score * Cardinality(Window(t)) * Cardinality(ScoredCols)
                = 100 * ClampedNumerator(t)

\* C18: for a non-empty window the score is
\* clamp(0, 100, completeness * 100 - 5 * issueCount) rounded to two decimals:
\* it is a whole number of hundredths at most half a hundredth away
C18QualityFormulaRounded ==
    \A t \in Threads :
        (QualityReturned(t) /\ Window(t) # {}) =>
            LET cells == Cardinality(Window(t)) * Cardinality(ScoredCols)
                diff == outcome[t].value.quality_score * cells - 100 * ClampedNumerator(t)
            IN  2 * diff <= cells /\ -2 * diff <= cells

\* two bars without trades and vwap, the second with a close far from the
\* first: 100 * 10/14 - 10 = 61.428..., reported as 61.43
C18Witness ==
    \E t \in Threads :
        /\ QualityReturned(t)
        /\ Cardinality(Window(t)) = 2
        /\ MissingCells(t) = 4
        /\ IssueCount(t) = 2
        /\ outcome[t].value.quality_score = 6143

\* ------------------------------------------------------------------------
\* Properties of query_ohlc_data and get_latest_timestamp
\* ------------------------------------------------------------------------
\* the stored rows of the series a call names
SeriesOf(t) == {r \in store : r.symbol = call[t].symbol /\ r.timeframe = call[t].timeframe}

\* the stored rows a query_ohlc_data call asks for
Requested(t) ==
    {r \in SeriesOf(t) :
        /\ call[t].start_time # Omitted => r.time >= call[t].start_time
        /\ call[t].end_time # Omitted => r.time <= call[t].end_time}

\* C19: query_ohlc_data returns only rows of the requested series within the
\* bounds given, every one of them when no limit is given, in non-decreasing
\* time order; with a limit it returns at most that many rows, the earliest
C19QueryRange ==
    \A t \in Threads :
        (pc[t] = "return" /\ call[t].op = "query_ohlc_data" /\ outcome[t].kind = "returned") =>
            LET rows == outcome[t].value
                times == {rows[k].time : k \in 1..Len(rows)}
            IN  /\ \A k \in 1..Len(rows) :
                       \E r \in Requested(t) : \A c \in QueryColumns : rows[k][c] = r[c]
                /\ \A k \in 1..(Len(rows) - 1) : rows[k].time <= rows[k + 1].time
                /\ Cardinality(times) = Len(rows)
                /\ call[t].limit = Omitted => Len(rows) = Cardinality(Requested(t))
                /\ call[t].limit # Omitted =>
                       /\ Len(rows) <= call[t].limit
                       /\ Len(rows) = Min(call[t].limit, Cardinality(Requested(t)))
                       /\ \A r \in Requested(t) :
                              r.time \notin times => \A x \in times : x < r.time

\* C20: get_latest_timestamp returns the greatest time stored for the series
\* asked for, and nothing exactly when the series has no row; rows of other
\* series play no part
C20LatestTimestamp ==
    \A t \in Threads :
        (pc[t] = "return" /\ call[t].op = "get_latest_timestamp"
            /\ outcome[t].kind = "returned") =>
            /\ outcome[t].value = Omitted <=> SeriesOf(t) = {}
            /\ SeriesOf(t) # {} =>
                   /\ \E r \in SeriesOf(t) : r.time = outcome[t].value
                   /\ \A r \in SeriesOf(t) : r.time <= outcome[t].value

\* the latest bar of the series was reported while another symbol and another
\* timeframe hold a later bar
C20Witness ==
    \E t \in Threads :
        /\ pc[t] = "return" /\ call[t].op = "get_latest_timestamp"
        /\ outcome[t].kind = "returned"
        /\ call[t].symbol = "AAPL"
        /\ outcome[t].value = 1
        /\ \E r \in store : r.symbol = "MSFT" /\ r.time = 2
        /\ \E r \in store : r.timeframe = "1h" /\ r.time = 2

\* ------------------------------------------------------------------------
\* Properties of validate_symbol and fetch_latest
\* ------------------------------------------------------------------------
\* C21: validate_symbol always returns a truth value, never raises, and the
\* value is true exactly when the fetch completed and delivered rows
C21ValidateSymbolTotal ==
    (fpc = "return" /\ request.method = "validate_symbol") =>
        /\ fetched.kind = "returned"
        /\ fetched.value \in BOOLEAN
        /\ fetched.value <=> cause = "data"

\* the fetch behind validate_symbol raised and false came back
C21Witness ==
    /\ fpc = "return"
    /\ request.method = "validate_symbol"
    /\ cause = "network"
    /\ fetched.kind = "returned"
    /\ fetched.value = FALSE

\* C22: fetch_latest hands over to fetch_historical once, with end = now and
\* start = end - bars * interval(timeframe) * bufferFactor, the factor 1.5 for
\* the daily and weekly timeframes and 1.2 for every other
C22FetchLatestWindow ==
    (fpc \in {"fetch_historical", "return"} /\ request.method = "fetch_latest") =>
        LET tf == request.timeframe
            interval == CASE tf = "1min" -> 60 [] tf = "5min" -> 5 * 60
                          [] tf = "15min" -> 15 * 60 [] tf = "30min" -> 30 * 60
                          [] tf = "1h" -> 3600 [] tf = "4h" -> 4 * 3600
                          [] tf = "1w" -> 7 * 24 * 3600 [] tf = "1mo" -> 30 * 24 * 3600
                          [] OTHER -> 24 * 3600
        IN  /\ request.calls = 1
            /\ request.end_date \in {60000 * Day, 60000 * Day + 1}
            /\ 10 * (request.end_date - request.start_date) =
                   request.bars * interval * (IF tf \in {"1d", "1w"} THEN 15 ELSE 12)

\* two weekly bars were asked for and the window reaches back three weeks
C22Witness ==
    /\ fpc = "return"
    /\ request.method = "fetch_latest"
    /\ request.timeframe = "1w"
    /\ request.bars = 2
    /\ request.end_date - request.start_date = 3 * 7 * 24 * 3600
    /\ fetched.kind = "returned"

\* ------------------------------------------------------------------------
\* Further properties of standardize_dataframe and get_data_quality_score
\* ------------------------------------------------------------------------
\* C28: every row standardize_dataframe hands back has
\* low <= open <= high and low <= close <= high
C28OhlcOrdering ==
    (StandardizeDone /\ fetched.kind = "returned") =>
        \A k \in 1..Len(fetched.frame.rows) :
            LET r == fetched.frame.rows[k]
            IN  {"open", "high", "low", "close"} \subseteq DOMAIN r =>
                    /\ r.low <= r.open /\ r.open <= r.high
                    /\ r.low <= r.close /\ r.close <= r.high

\* C30: a window in which every bar has open, high, low, close and volume, a
\* volume other than zero and no close more than 50% away from the close
\* before scores 100 with no issue, with or without trades and vwap
C30CleanSeriesScores100 ==
    \A t \in Threads :
        (/\ QualityReturned(t)
         /\ Window(t) # {}
         /\ \A r \in Window(t) :
                /\ \A c \in {"open", "high", "low", "close", "volume"} : r[c] # NULL
                /\ r.volume # 0
         /\ \A r, q \in Window(t) :
                (q.time < r.time /\ \A x \in Window(t) : ~(q.time < x.time /\ x.time < r.time))
                    => (2 * (r.close - q.close) <= q.close /\ 2 * (q.close - r.close) <= q.close))
            => /\ outcome[t].value.quality_score = 100 * 100
               /\ outcome[t].value.issues = << >>

\* ------------------------------------------------------------------------
\* Properties of the audit log and of the symbol metadata
\* ------------------------------------------------------------------------
\* the step in which the statement and the commit of caller t's op succeed
Wrote(t, op) ==
    /\ pc[t] = "run"
    /\ pc'[t] = "putconn"
    /\ exc'[t] = ""
    /\ call[t].op = op

\* C23: the audit log is append-only: the successful statement of a
\* log_ingestion call adds exactly one row, the row of its arguments, at the
\* end and leaves every earlier row as it was, also when the job_id is already
\* in the log; no other step of any operation changes the log.
C23AuditAppendOnly ==
    [][\A t \in Threads :
          IF Wrote(t, "log_ingestion")
          THEN /\ Len(ingestion_logs') = Len(ingestion_logs) + 1
               /\ \A k \in 1..Len(ingestion_logs) : ingestion_logs'[k] = ingestion_logs[k]
               /\ LET entry == ingestion_logs'[Len(ingestion_logs')]
                  IN  /\ entry.job_id = call[t].job_id
                      /\ entry.status = call[t].status
                      /\ entry.error_message = call[t].error_message
                      /\ entry.records_inserted = call[t].records_inserted
          ELSE (\E u \in Threads : Wrote(u, "log_ingestion"))
                  \/ ingestion_logs' = ingestion_logs]_vars

\* two audit rows of the same job_id, a success after a failure, both kept
C23Witness ==
    /\ Len(ingestion_logs) = 2
    /\ ingestion_logs[1].job_id = ingestion_logs[2].job_id
    /\ ingestion_logs[1].status = "failed"
    /\ ingestion_logs[2].status = "success"
    /\ pc["job1"] = "return"
    /\ call["job1"].op = "log_ingestion"
    /\ outcome["job1"].kind = "returned"

\* C26: add_symbol_metadata is a last-write-wins upsert: the symbols table
\* holds at most one row per symbol; the successful statement of a call leaves
\* exactly the row of its symbol with the fields of that call (None for a key
\* the dict lacks, 'USD' and True for currency and active), so that repeating
\* the call changes nothing, and leaves the rows of other symbols alone; no
\* other step changes the table.
C26MetadataUpsert ==
    [][/\ \A r1, r2 \in symbols' : r1.symbol = r2.symbol => r1 = r2
       /\ \A t \in Threads :
             IF Wrote(t, "add_symbol_metadata")
             THEN LET m == call[t].metadata
                      Given(key, default) == IF key \in DOMAIN m THEN m[key] ELSE default
                  IN  /\ \E r \in symbols' :
                            /\ r.symbol = call[t].symbol
                            /\ \A key \in {"name", "exchange", "asset_type", "sector",
                                            "industry"} : r[key] = Given(key, None)
                            /\ r.currency = Given("currency", "USD")
                            /\ r.active = Given("active", TRUE)
                            /\ r.metadata = IF "extra" \in DOMAIN m
                                            THEN "{\"lot\": 100}" ELSE "{}"
                      /\ {r \in symbols' : r.symbol # call[t].symbol}
                            = {r \in symbols : r.symbol # call[t].symbol}
             ELSE (\E u \in Threads : Wrote(u, "add_symbol_metadata"))
                     \/ symbols' = symbols]_vars

\* a call with an empty dict has replaced the row of its symbol by the
\* defaults, next to the row of another symbol
C26Witness ==
    /\ pc["job1"] = "return"
    /\ call["job1"].op = "add_symbol_metadata"
    /\ outcome["job1"].kind = "returned"
    /\ DOMAIN call["job1"].metadata = {}
    /\ \E r \in symbols : r.symbol = call["job1"].symbol /\ r.currency = "USD"
                              /\ r.name = None /\ r.active
    /\ \E r \in symbols : r.symbol # call["job1"].symbol /\ r.currency = "EUR"

\* C27: close() may be repeated: the first close() leaves no open connection
\* in the pool, and a later close() returns without an error.
C27CloseRepeatable ==
    \A t \in Threads :
        pc[t] = "return" /\ call[t].op = "close"
            => outcome[t].kind = "returned" /\ pool_closed /\ idle = 0

\* C29: whatever the interleaving of concurrent get_timescale_handler calls,
\* at most one TimescaleHandler is constructed and all calls that return hand
\* out the same instance.
C29SingletonUnderConcurrency ==
    /\ constructed <= 1
    /\ \A t, u \in Threads :
          /\ pc[t] = "return" /\ call[t].op = "get_timescale_handler"
          /\ pc[u] = "return" /\ call[u].op = "get_timescale_handler"
          /\ outcome[t].kind = "returned" /\ outcome[u].kind = "returned"
          => outcome[t].value = outcome[u].value

====
